---------------------------- MODULE Spec2Model ----------------------------
(***************************************************************************)
(* A model of scalestack: the HTTP service's handler list (registration    *)
(* and matching, the dispatch of a request and its response,                *)
(* scalestack/http.py) and the core's configuration and service registry   *)
(* (scalestack/__init__.py).                                               *)
(*                                                                         *)
(* Strings that the code inspects character by character (paths) are       *)
(* sequences of one-character strings.  Python's None is the value None.   *)
(* A reference to a registered handler is its position in the handler      *)
(* list (handlers are only ever appended), 0 standing for None.            *)
(*                                                                         *)
(* The http service and its requests are modelled as their classes are     *)
(* written; that the core of this source cannot import the module of the   *)
(* http service (ImportRaises) is part of the registry model alone.        *)
(***************************************************************************)
EXTENDS Naturals, Sequences, FiniteSets

VARIABLES
    handlers,   \* http.Service._handlers
    rlast,      \* the last call made on the http service and its outcome
    config,     \* Core.config
    services,   \* Core.services
    running,    \* Core.running
    log,        \* whether Core._log is set (it is None until run)
    calls,      \* per service, how often its constructor was invoked
    got,        \* per service, the first value get_service returned for it
    clast,      \* the last call made on the core and its outcome
    resp,       \* the last request the http service was called with and its response
    req,        \* a request object: its environment and what it has parsed of it
    requests,   \* the service the constructor of ext asks the core for, or None
    tasks,      \* the greenlets calling the core, each with its call under way
    reentry     \* what the last call answered a constructor asking for its own service

None == "<None>"

---------------------------------------------------------------------------
(* Bounds of the router model.                                             *)
MaxHandlers == 2
MaxPathLen == 1

Chars == {"/", "a"}
\* Host filters of handlers (None: any host) and hosts of requests (None: no
\* Host header).
Hosts == {None, "a"}
RequestHosts == {None, "a", "b"}

RECURSIVE SeqsUpTo(_, _)
SeqsUpTo(S, n) ==
    IF n = 0 THEN {<<>>}
    ELSE LET shorter == SeqsUpTo(S, n - 1)
         IN  shorter \cup {Append(s, c) : s \in {t \in shorter : Len(t) = n - 1}, c \in S}

\* Paths handed to Handler(...) and paths of requests (PATH_INFO).
RawPaths == SeqsUpTo(Chars, MaxPathLen)
RequestPaths == SeqsUpTo(Chars, MaxPathLen + 1)

---------------------------------------------------------------------------
(* scalestack/http.py                                                      *)

\* str.startswith
StartsWith(path, prefix) ==
    /\ Len(prefix) <= Len(path)
    /\ SubSeq(path, 1, Len(prefix)) = prefix

\* Handler.__init__: the path is made to begin with '/'; path[0] of an
\* empty path raises IndexError.
HandlerInitFails(path) == Len(path) = 0

NormalizePath(path) ==
    IF path[1] # "/" THEN <<"/">> \o path ELSE path

Handler(host, path) == [host |-> host, path |-> NormalizePath(path)]

\* match_handler, line 76: the handler is passed over for this host.
\* The host test of line 77 made without regard to case.
HostSkipsFolded(host, handler, exact) ==
    LET Fold(h) == IF h = "A" THEN "a" ELSE h
    IN  Fold(host) # Fold(handler.host) /\ (exact \/ handler.host # None)

HostSkips(host, handler, exact) ==
    host # handler.host /\ (exact \/ handler.host # None)

\* HeldIsLonger with >= for >: a later handler with a path of the same length
\* does not take the place of the match held.
HeldIsLongerOrEqual(held, handler) == Len(held.path) >= Len(handler.path)

\* HeldIsLonger without the comparison of lengths: the last match wins.
HeldIsLongerNever(held, handler) == FALSE

\* match_handler, line 82: the match held so far has a longer path.
HeldIsLonger(held, handler) == Len(held.path) > Len(handler.path)

\* match_handler: the loop over self._handlers from position i on, match
\* being the position of the match held so far (0 for None).
RECURSIVE MatchLoop(_, _, _, _, _, _)
MatchLoop(hs, i, host, path, exact, match) ==
    IF i > Len(hs) THEN match
    ELSE LET handler == hs[i]
         IN  IF HostSkips(host, handler, exact)
             THEN MatchLoop(hs, i + 1, host, path, exact, match)
             ELSE IF exact
             THEN IF path = handler.path
                  THEN i
                  ELSE MatchLoop(hs, i + 1, host, path, exact, match)
             ELSE IF match # 0 /\ HeldIsLonger(hs[match], handler)
             THEN MatchLoop(hs, i + 1, host, path, exact, match)
             ELSE IF StartsWith(path, handler.path)
             THEN MatchLoop(hs, i + 1, host, path, exact, i)
             ELSE MatchLoop(hs, i + 1, host, path, exact, match)

match_handler(hs, host, path, exact) == MatchLoop(hs, 1, host, path, exact, 0)

\* add_handler, line 68: the message is built as '%s %s' % handler.host, the
\* comma making handler.path a second argument of the exception: two
\* conversions, one value.
FormatSpecs == 2
FormatValues == 1

\* What line 68 raises.
DuplicateRaises ==
    IF FormatSpecs = FormatValues THEN "HandlerAlreadyExists" ELSE "TypeError"

\* Handler(host, path, ...) followed by Service.add_handler(handler).
AddHandler(host, path) ==
    IF HandlerInitFails(path)
    THEN /\ handlers' = handlers
         /\ rlast' = [op |-> "add_handler", host |-> host, path |-> path,
                      dup |-> FALSE, ret |-> 0, err |-> "IndexError"]
    ELSE LET handler == Handler(host, path)
             found == match_handler(handlers, handler.host, handler.path, TRUE)
         IN  IF found # 0
             THEN /\ handlers' = handlers
                  /\ rlast' = [op |-> "add_handler", host |-> handler.host,
                               path |-> handler.path, dup |-> TRUE,
                               ret |-> 0, err |-> DuplicateRaises]
             ELSE /\ Len(handlers) < MaxHandlers
                  /\ handlers' = Append(handlers, handler)
                  /\ rlast' = [op |-> "add_handler", host |-> handler.host,
                               path |-> handler.path, dup |-> FALSE,
                               ret |-> Len(handlers) + 1, err |-> "none"]

\* Service.match_handler(host, path): the lookup __call__ makes.
MatchHandler(host, path) ==
    /\ handlers' = handlers
    /\ rlast' = [op |-> "match_handler", host |-> host, path |-> path,
                 dup |-> FALSE,
                 ret |-> match_handler(handlers, host, path, FALSE),
                 err |-> "none"]

rvars == <<handlers, rlast>>

NoCall == [op |-> "init", host |-> None, path |-> <<>>, dup |-> FALSE,
           ret |-> 0, err |-> "none"]

---------------------------------------------------------------------------
(* scalestack/http.py: Service.__call__, Request and the status codes.     *)
(* A header list is a sequence of <<name, value>> pairs; a body is a       *)
(* string, None, or Generator for a generator object whose chunks are      *)
(* produced when the server iterates over it.                              *)

\* env['SERVER_SOFTWARE'], set from the option server_name (line 60).
SERVER_SOFTWARE == "ScaleStack/0"

Generator == "<generator>"

header_exists(name, headers) ==
    \E i \in DOMAIN headers : headers[i][1] = name

\* Python's `value or default` for a body: None and the empty string are
\* false.
Or(value, default) == IF value = None \/ value = "" THEN default ELSE value

StatusClasses ==
    {"BadRequest", "Unauthorized", "Forbidden", "NotFound", "MethodNotAllowed"}

\* The status attribute of the base class for every class.
StatusUndefined(class) == "000 Undefined"

\* The status attribute of StatusCode and of its subclasses.
StatusLine(class) ==
    CASE class = "BadRequest" -> "400 Bad Request"
      [] class = "Unauthorized" -> "401 Unauthorized"
      [] class = "Forbidden" -> "403 Forbidden"
      [] class = "NotFound" -> "404 Not Found"
      [] class = "MethodNotAllowed" -> "405 Method Not Allowed"
      [] OTHER -> "000 Undefined"

\* StatusCode.__init__(body, headers) of the given class.  The empty header
\* list stands for headers=None too: line 216 makes both a new empty list.
StatusCode(class, body, headers) ==
    [class |-> class,
     status |-> StatusLine(class),
     headers |-> IF body = None /\ ~header_exists("Content-Type", headers)
                 THEN Append(headers, <<"Content-Type", "text/plain">>)
                 ELSE headers,
     body |-> Or(body, StatusLine(class))]

NoSignal == [class |-> "", status |-> "", headers |-> <<>>, body |-> None]

\* Request.__init__, line 130: the response headers of a new request.
RequestHeaders == << <<"Server", SERVER_SOFTWARE>> >>

\* A call of start(status, headers).
Started(status, headers) == [status |-> status, headers |-> headers]

\* _respond with the body replaced by the empty string.
RespondEmpty(headers, status, body) ==
    [raised |-> "none", signal |-> NoSignal,
     starts |-> <<Started(status, headers)>>, ret |-> ""]

\* Request._respond(status, body), self._headers being headers: the outcome
\* of a run that ends with it.
Respond(headers, status, body) ==
    [raised |-> "none", signal |-> NoSignal,
     starts |-> <<Started(status, headers)>>, ret |-> Or(body, "")]

\* The status of _ok, _created and _no_content.
HelperStatus(helper) ==
    CASE helper = "_ok" -> "200 Ok"
      [] helper = "_created" -> "201 Created"
      [] helper = "_no_content" -> "204 No Content"

Raised(signal) ==
    [raised |-> "StatusCode", signal |-> signal, starts |-> <<>>, ret |-> None]

Faulted(class) ==
    [raised |-> class, signal |-> NoSignal, starts |-> <<>>, ret |-> None]

\* What the request class of a handler does with a request: it ends with
\* one of the response helpers, returns from run without having called one
\* (kind "silent"), raises a status code, or raises another exception, the
\* latter two in its constructor (phase "init"), in run before any helper
\* was called (phase "run") or in run after _ok was called (phase
\* "started"); or it is the Request of scalestack.profile.
Bodies == {None, "", "test"}
SignalHeaders ==
    { <<>>, << <<"Server", "custom">> >>, << <<"Content-Type", "text/html">> >> }
Phases == {"init", "run", "started"}
Faults == {"ValueError", "KeyError"}

Behaviour(kind, phase, class, body, headers) ==
    [kind |-> kind, phase |-> phase, class |-> class, body |-> body,
     headers |-> headers]

NoBehaviour == Behaviour("none", "", "", None, <<>>)

Behaviours ==
    {Behaviour("respond", "run", h, b, <<>>) :
        h \in {"_ok", "_created", "_no_content"}, b \in Bodies}
    \cup {Behaviour("status", "run", c, b, hs) :
             c \in StatusClasses, b \in Bodies, hs \in SignalHeaders}
    \cup {Behaviour("status", ph, c, None, <<>>) :
             ph \in Phases, c \in StatusClasses}
    \cup {Behaviour("fault", ph, c, None, <<>>) : ph \in Phases, c \in Faults}
    \cup {Behaviour("silent", "run", "", b, <<>>) : b \in Bodies}
    \cup {Behaviour("profile", "run", "", None, <<>>)}

\* The calls of start a request class has made when it raises: none in its
\* constructor or in run before a helper, that of _ok (line 195) after it.
HelperStarts(phase) ==
    IF phase = "started"
    THEN Respond(RequestHeaders, HelperStatus("_ok"), None).starts
    ELSE <<>>

\* handler.request_class(env, start, core, ...) followed by request.run(),
\* lines 100 to 102.  profile.Request.run (profile.py, lines 33 and 34)
\* appends a Content-Type header and passes the generator _recent() to _ok.
Serve(b) ==
    CASE b.kind = "respond" ->
           Respond(RequestHeaders, HelperStatus(b.class), b.body)
      [] b.kind = "silent" ->
           [raised |-> "none", signal |-> NoSignal, starts |-> <<>>,
            ret |-> b.body]
      [] b.kind = "status" ->
           [Raised(StatusCode(b.class, b.body, b.headers)) EXCEPT
               !.starts = HelperStarts(b.phase)]
      [] b.kind = "fault" ->
           [Faulted(b.class) EXCEPT !.starts = HelperStarts(b.phase)]
      [] b.kind = "profile" ->
           Respond(Append(RequestHeaders, <<"Content-Type", "text/plain">>),
                   HelperStatus("_ok"), Generator)

\* Lines 104 and 105 left out: the headers are passed on as they are.
WithServerNever(headers) == headers

\* Line 105 always inserting the Server header.
WithServerAlways(headers) == << <<"Server", SERVER_SOFTWARE>> >> \o headers

\* Lines 104 and 105: the headers of a status code as they are passed to
\* start.
WithServer(headers) ==
    IF ~header_exists("Server", headers)
    THEN << <<"Server", SERVER_SOFTWARE>> >> \o headers
    ELSE headers

\* The except clause of line 109 returning the name of the exception as the
\* body.
InternalServerErrorNamed(fault) ==
    [start |-> Started("500 Internal Server Error",
                       << <<"Server", SERVER_SOFTWARE>> >>),
     body |-> fault]

\* Lines 112 to 114: the response to an exception that is not a status
\* code.
InternalServerError(fault) ==
    [start |-> Started("500 Internal Server Error",
                       << <<"Server", SERVER_SOFTWARE>> >>),
     body |-> ""]

\* HTTP_HOST of the environment: absent, or a text, a name with or without
\* a port.
NoHostHeader == [present |-> FALSE, text |-> <<>>]
HostHeader(text) == [present |-> TRUE, text |-> text]
HostHeaders ==
    {NoHostHeader} \cup
    {HostHeader(t) : t \in {<<"a">>, <<"b">>, <<"a", ":", "8">>, <<"b", ":", "8">>}}

\* The string of a sequence of characters.
RECURSIVE Join(_)
Join(s) == IF s = <<>> THEN "" ELSE Head(s) \o Join(Tail(s))

\* The index of the last sep in s at or before i, 0 if there is none.
RECURSIVE RFind(_, _, _)
RFind(s, sep, i) ==
    IF i = 0 THEN 0
    ELSE IF s[i] = sep THEN i
    ELSE RFind(s, sep, i - 1)

\* s.rsplit(sep, 1)
RSplitOnce(s, sep) ==
    LET i == RFind(s, sep, Len(s))
    IN  IF i = 0 THEN <<s>>
        ELSE <<SubSeq(s, 1, i - 1), SubSeq(s, i + 1, Len(s))>>

\* Lines 91 to 93: env.get('HTTP_HOST', None), and host.rsplit(':', 1)[0],
\* the part before the last colon.
HostOf(header) ==
    IF header.present THEN Join(RSplitOnce(header.text, ":")[1]) ELSE None

\* PATH_INFO of the environment: absent, or a path.
PathInfos ==
    {[present |-> FALSE, path |-> <<>>]} \cup
    {[present |-> TRUE, path |-> p] : p \in {<<"/">>, <<"/", "a">>}}

\* Line 94: env.get('PATH_INFO', '/').
PathOf(info) == IF info.present THEN info.path ELSE <<"/">>

\* Service.__call__(env, start): the Host header of the request, the
\* handler matched, whether its request
\* class was called and run, the calls of start in their order, the value
\* returned and the exception that left __call__ ("none" if it returned).
Call(hs, header, info, b) ==
    LET handler == match_handler(hs, HostOf(header), PathOf(info), FALSE)
        out == IF handler = 0 THEN Raised(StatusCode("NotFound", None, <<>>))
               ELSE Serve(b)
        base == [op |-> "call", HTTP_HOST |-> header, matched |-> handler,
                 behaviour |-> IF handler = 0 THEN NoBehaviour ELSE b,
                 constructed |-> handler # 0,
                 ran |-> handler # 0 /\ b.phase # "init",
                 starts |-> out.starts, body |-> out.ret, err |-> "none",
                 drained |-> FALSE, chunks |-> <<>>, fault |-> "none"]
    IN  IF out.raised = "none"
        THEN base
        ELSE IF out.raised = "StatusCode"
        THEN [base EXCEPT
                !.starts = Append(out.starts,
                                  Started(out.signal.status,
                                          WithServer(out.signal.headers))),
                !.body = out.signal.body]
        ELSE [base EXCEPT
                !.starts = Append(out.starts, InternalServerError(out.raised).start),
                !.body = InternalServerError(out.raised).body]

NoResponse ==
    [op |-> "init", HTTP_HOST |-> NoHostHeader, matched |-> 0,
     behaviour |-> NoBehaviour,
     constructed |-> FALSE, ran |-> FALSE, starts |-> <<>>, body |-> None,
     err |-> "none", drained |-> FALSE, chunks |-> <<>>, fault |-> "none"]

\* The http service is called with a request.
Dispatch(header, info, b) ==
    /\ resp' = Call(handlers, header, info, b)
    /\ UNCHANGED <<handlers, rlast, req>>

\* The attributes of a profile.Request: those Common (__init__.py, lines
\* 36 to 44), http.Request (lines 120 to 207) and profile.Request
\* (profile.py, lines 31 to 39) define.
RequestAttributes ==
    {"core", "_log", "_get_config", "_env", "_start", "_method",
     "_parameters", "_cookies", "_body", "_headers", "run", "_read_body",
     "_parse_parameters", "_parse_cookies", "_set_cookie", "_respond", "_ok",
     "_created", "_no_content", "_recent"}

\* Service.recent of scalestack.profile: the profiles recorded, oldest
\* first.
Recents == {<<>>, <<"p1">>, <<"p1", "p2">>}

\* '%s\n' % profile
Line(profile) == profile \o "\n"

\* The body of profile.Request._recent (profile.py, lines 38 and 39), run
\* when the generator is iterated over: the chunks it yields, or the
\* exception it raises; self._get_service is an attribute lookup.
Recent(recent) ==
    IF "_get_service" \in RequestAttributes
    THEN [fault |-> "none",
          chunks |-> [i \in 1..Len(recent) |-> Line(recent[Len(recent) + 1 - i])]]
    ELSE [fault |-> "AttributeError", chunks |-> <<>>]

\* The server iterates over the generator __call__ returned.
Iterate(recent) ==
    /\ resp.body = Generator
    /\ ~resp.drained
    /\ resp' = [resp EXCEPT !.drained = TRUE,
                            !.chunks = Recent(recent).chunks,
                            !.fault = Recent(recent).fault]
    /\ UNCHANGED <<handlers, rlast, req>>

dvars == <<resp, req>>

---------------------------------------------------------------------------
(* scalestack/http.py: Request._parse_parameters and _parse_cookies.       *)
(* A text is a sequence of one-character strings.                          *)

\* Bound of the parsing model: the length of a query string or cookie
\* header.
MaxTextLen == 5

QueryChars == {"a", "b", "=", "&", " "}
CookieChars == {"a", "=", ";", " ", "\""}

\* The characters str.strip() removes: whitespace.
Whitespace == {" ", "\t", "\n", "\r"}

\* The characters of line 176: cookie[1].strip(' \t"').
CookieTrim == {" ", "\t", "\""}

\* The position of the first sep in s from position i on, 0 if there is
\* none.
RECURSIVE Find(_, _, _)
Find(s, sep, i) ==
    IF i > Len(s) THEN 0
    ELSE IF s[i] = sep THEN i
    ELSE Find(s, sep, i + 1)

\* s.split(sep)
RECURSIVE Split(_, _)
Split(s, sep) ==
    LET i == Find(s, sep, 1)
    IN  IF i = 0 THEN <<s>>
        ELSE <<SubSeq(s, 1, i - 1)>> \o Split(SubSeq(s, i + 1, Len(s)), sep)

\* s.split(sep, 1)
SplitOnce(s, sep) ==
    LET i == Find(s, sep, 1)
    IN  IF i = 0 THEN <<s>>
        ELSE <<SubSeq(s, 1, i - 1), SubSeq(s, i + 1, Len(s))>>

RECURSIVE LStrip(_, _)
LStrip(s, chars) ==
    IF s # <<>> /\ s[1] \in chars THEN LStrip(Tail(s), chars) ELSE s

RECURSIVE RStrip(_, _)
RStrip(s, chars) ==
    IF s # <<>> /\ s[Len(s)] \in chars
    THEN RStrip(SubSeq(s, 1, Len(s) - 1), chars)
    ELSE s

\* strip that removes nothing.
StripNothing(s, chars) == s

\* s.strip(chars)
Strip(s, chars) == RStrip(LStrip(s, chars), chars)

\* The values of a parsed dictionary: None, or a text.
Null == [null |-> TRUE, text |-> <<>>]
Text(t) == [null |-> FALSE, text |-> t]

\* d[key] = value
Put(d, key, value) ==
    [k \in DOMAIN d \cup {key} |-> IF k = key THEN value ELSE d[k]]

\* The loops of lines 154 to 160 and 170 to 176 from piece i on, the values
\* being stripped of the characters trim.
RECURSIVE ParseLoop(_, _, _, _)
ParseLoop(pieces, i, trim, d) ==
    IF i > Len(pieces) THEN d
    ELSE LET piece == SplitOnce(pieces[i], "=")
             key == Strip(piece[1], Whitespace)
         IN  ParseLoop(pieces, i + 1, trim,
                       Put(d, key, IF Len(piece) = 1
                                   THEN Null
                                   ELSE Text(Strip(piece[2], trim))))

\* An entry of the environment that may be absent, and a dictionary
\* attribute that is None until it is parsed.
Missing == [present |-> FALSE, text |-> <<>>]
Given(t) == [present |-> TRUE, text |-> t]
Unparsed == [parsed |-> FALSE, dict |-> <<>>]
Parsed(d) == [parsed |-> TRUE, dict |-> d]

\* self._body: None, or the text read.
Unread == [read |-> FALSE, text |-> ""]
Read(text) == [read |-> TRUE, text |-> text]

\* Request.__init__, lines 122 to 129.  wsgi_input is what the read() of
\* env['wsgi.input'] returns when it does not raise; reads counts, for each
\* of the three, the times the environment was read for it, and err is the
\* exception the last call of an accessor raised.
NewRequest(query, cookie) ==
    [QUERY_STRING |-> query, HTTP_COOKIE |-> cookie, wsgi_input |-> "",
     _parameters |-> Unparsed, _cookies |-> Unparsed, _body |-> Unread,
     reads |-> [parameters |-> 0, cookies |-> 0, body |-> 0],
     err |-> "none"]

_parse_parameters(r) ==
    IF r._parameters.parsed THEN [r EXCEPT !.err = "none"]
    ELSE IF ~r.QUERY_STRING.present
    THEN [r EXCEPT !._parameters = Parsed(<<>>), !.err = "none",
                   !.reads.parameters = @ + 1]
    ELSE [r EXCEPT !._parameters =
            Parsed(ParseLoop(Split(r.QUERY_STRING.text, "&"), 1, Whitespace, <<>>)),
                   !.err = "none", !.reads.parameters = @ + 1]

_parse_cookies(r) ==
    IF r._cookies.parsed THEN [r EXCEPT !.err = "none"]
    ELSE IF ~r.HTTP_COOKIE.present
    THEN [r EXCEPT !._cookies = Parsed(<<>>), !.err = "none",
                   !.reads.cookies = @ + 1]
    ELSE [r EXCEPT !._cookies =
            Parsed(ParseLoop(Split(r.HTTP_COOKIE.text, ";"), 1, CookieTrim, <<>>)),
                   !.err = "none", !.reads.cookies = @ + 1]

\* The read() of env['wsgi.input'] returns, or raises an exception.
ReadOutcomes == {"returns", "raises"}

\* Request._read_body, lines 136 to 144: the assignment of line 141 is not
\* made when the read raises.
_read_body(r, outcome) ==
    IF r._body.read THEN [r EXCEPT !.err = "none"]
    ELSE IF outcome = "returns"
    THEN [r EXCEPT !._body = Read(r.wsgi_input), !.err = "none",
                   !.reads.body = @ + 1]
    ELSE [r EXCEPT !.err = "BadRequest", !.reads.body = @ + 1]

ParseParameters ==
    /\ req' = _parse_parameters(req)
    /\ UNCHANGED <<handlers, rlast, resp>>

ParseCookies ==
    /\ req' = _parse_cookies(req)
    /\ UNCHANGED <<handlers, rlast, resp>>

\* The reads of wsgi.input followed in one request.
MaxReads == 2

ReadBody(outcome) ==
    /\ req._body.read \/ req.reads.body < MaxReads
    /\ req' = _read_body(req, outcome)
    /\ UNCHANGED <<handlers, rlast, resp>>

NoRequest == NewRequest(Missing, Missing)

---------------------------------------------------------------------------
(* scalestack/__init__.py                                                  *)

\* Bound of the core model: constructor invocations per service.
MaxCalls == 2

\* Modules a service name may stand for: the core, the HTTP service, a
\* service module from outside the package, and a name that cannot be
\* imported.
ServiceNames == {"scalestack", "scalestack.http", "ext", "nosuch"}

\* What __import__(service) followed by getattr(module, 'Service') raises,
\* "none" if nothing.  nosuch is the name of no module.  The module of
\* scalestack.http builds its CONFIG_OPTIONS (http.py, lines 10 to 16) by
\* calling Option with two arguments, and Option.__init__ (line 27) takes
\* three: executing the module raises TypeError.
ImportRaises(service) ==
    CASE service = "nosuch" -> "ImportError"
      [] service = "scalestack.http" -> "TypeError"
      [] OTHER -> "none"

\* The exceptions load_service catches and replaces by ImportError; any
\* other passes through it.
Caught == {"ImportError", "ValueError", "AttributeError"}

LoadRaises(service) ==
    IF ImportRaises(service) \in Caught THEN "ImportError" ELSE ImportRaises(service)

\* A module path on which every name resolves to a module with a Service.
ImportableAlways(service) == TRUE

\* __import__(service) and getattr(module, 'Service') succeed.
Importable(service) == ImportRaises(service) = "none"

\* The module's CONFIG_OPTIONS.
CONFIG_OPTIONS(service) ==
    CASE service = "scalestack" -> {"logging", "thread_pool_size"}
      [] service = "scalestack.http" -> {"host", "port", "backlog", "server_name"}
      [] service = "ext" -> {"port"}
      [] OTHER -> {}

\* Option.default_value
default_value(service, option) ==
    CASE option = "port" -> "80"
      [] option = "thread_pool_size" -> "1000"
      [] OTHER -> "default"

\* Keys an option mapping of the config tree may hold, and the option names
\* and values callers pass.
Keys == {"port", "_port"}
OptionNames == {"port", "_port"}
Values == {"8080", "8081"}
Unset == "<unset>"

\* '_%s' % option
LocalName(option) == "_" \o option

NoOptions == [k \in Keys |-> Unset]
NoEntry == [present |-> FALSE, opts |-> NoOptions]
Entry(opts) == [present |-> TRUE, opts |-> opts]

\* service in self.config
InConfig(cfg, service) == cfg[service].present
\* key in self.config[service]
HasKey(cfg, service, key) ==
    /\ key \in Keys
    /\ cfg[service].opts[key] # Unset

\* Values of the registry and of results.
Obj(kind, service, id) == [kind |-> kind, service |-> service, id |-> id]
Absent == Obj("absent", "", 0)
NoValue == Obj("none", "", 0)
CoreObj == Obj("core", "scalestack", 0)
ClassOf(service) == Obj("class", service, 0)
Instance(service, n) == Obj("instance", service, n)
ValueOf(v) == [kind |-> "value", service |-> v, id |-> 0]

\* service in self.services
InServices(st, service) == st.services[service] # Absent

Raise(st, err) == [st EXCEPT !.err = err]

RECURSIVE get_service(_, _, _)

\* self.core.get_service(wanted) inside the constructor of service, as the
\* constructors of scalestack.file and scalestack.profile ask for
\* scalestack.http.  A request for the service under construction is noted
\* with the value it was answered with.
Request(st, service, wanted, ok) ==
    LET st1 == get_service(st, wanted, ok)
    IN  IF st1.err = "none" /\ wanted = service
        THEN [st1 EXCEPT !.reentry = st1.services[wanted]]
        ELSE st1

\* Service.__init__ of each module, the constructor being invoked for the
\* n-th time.  scalestack.http: Common.__init__, then line 53 of http.py
\* asks the core for get_logger, which Core does not define.  ext: the
\* constructor of a service from outside the package asks the core for the
\* service it builds on (requests), if any, and completes or raises (ok).
Construct(st, service, ok) ==
    LET n == st.calls[service] + 1
        st1 == [st EXCEPT !.calls[service] = n]
        st2 == IF requests # None THEN Request(st1, service, requests, ok) ELSE st1
    IN  IF service = "scalestack.http"
        THEN [obj |-> NoValue, st |-> Raise(st1, "AttributeError")]
        ELSE IF st2.err # "none"
        THEN [obj |-> NoValue, st |-> st2]
        ELSE IF ok
        THEN [obj |-> Instance(service, n), st |-> st2]
        ELSE [obj |-> NoValue, st |-> Raise(st2, "ConstructorError")]

\* self.services[service](self): calling the registered value.  A class
\* constructs; an instance is not callable with the core as its only
\* argument.
CallEntry(st, service, ok) ==
    IF st.services[service].kind = "class"
    THEN Construct(st, service, ok)
    ELSE [obj |-> NoValue, st |-> Raise(st, "TypeError")]

\* start_service, lines 146 to 148.
StartBody(st, service, ok) ==
    IF service # "scalestack"
    THEN LET made == CallEntry(st, service, ok)
         IN  IF made.st.err # "none"
             THEN made.st
             ELSE LET st1 == [made.st EXCEPT !.services[service] = made.obj]
                  IN  IF st1.log THEN st1 ELSE Raise(st1, "AttributeError")
    ELSE st

RECURSIVE load_service(_, _, _)
RECURSIVE start_service(_, _, _)

\* load_service without the test of line 131: a service already in the
\* registry is loaded again.
LoadAgain(st, service, ok) ==
    IF ~Importable(service)
    THEN Raise(st, LoadRaises(service))
    ELSE LET st1 == [st EXCEPT !.services[service] = ClassOf(service)]
         IN  IF st1.running THEN start_service(st1, service, ok) ELSE st1

\* load_service without the test of line 139: the service is started
\* whether the core is running or not.
LoadStarts(st, service, ok) ==
    IF InServices(st, service)
    THEN st
    ELSE IF ~Importable(service)
    THEN Raise(st, LoadRaises(service))
    ELSE start_service([st EXCEPT !.services[service] = ClassOf(service)],
                       service, ok)

load_service(st, service, ok) ==
    IF InServices(st, service)
    THEN st
    ELSE IF ~Importable(service)
    THEN Raise(st, LoadRaises(service))
    ELSE LET st1 == [st EXCEPT !.services[service] = ClassOf(service)]
         IN  IF st1.running THEN start_service(st1, service, ok) ELSE st1

start_service(st, service, ok) ==
    LET st1 == IF ~InServices(st, service)
               THEN load_service(st, service, ok)
               ELSE st
    IN  IF st1.err # "none" THEN st1 ELSE StartBody(st1, service, ok)

\* get_service: the state after the call; the value returned is
\* st.services[service] when st.err is "none".
get_service(st, service, ok) ==
    IF ~InServices(st, service) THEN load_service(st, service, ok) ELSE st

\* verify_config without the test of the option: any option passes.
VerifyAnyOption(st, service, option, ok) == load_service(st, service, ok)

\* verify_config
verify_config(st, service, option, ok) ==
    LET st1 == load_service(st, service, ok)
    IN  IF st1.err # "none"
        THEN st1
        ELSE IF option \notin CONFIG_OPTIONS(service)
        THEN Raise(st1, "InvalidConfigOption")
        ELSE st1

\* ConfigLookup with the two tests in the other order: shared before local.
ConfigLookupSharedFirst(cfg, service, option) ==
    IF InConfig(cfg, service) /\ HasKey(cfg, service, option)
    THEN cfg[service].opts[option]
    ELSE IF InConfig(cfg, service) /\ HasKey(cfg, service, LocalName(option))
    THEN cfg[service].opts[LocalName(option)]
    ELSE default_value(service, option)

\* get_config, lines 100 to 106: the value returned after verify_config.
ConfigLookup(cfg, service, option) ==
    IF InConfig(cfg, service) /\ HasKey(cfg, service, LocalName(option))
    THEN cfg[service].opts[LocalName(option)]
    ELSE IF InConfig(cfg, service) /\ HasKey(cfg, service, option)
    THEN cfg[service].opts[option]
    ELSE default_value(service, option)

\* set_config, line 117: the condition under which the value is written.
\* The code tests the option name against the keys of self.config, which are
\* service names.
Writes(cfg, service, option, overwrite) ==
    overwrite \/ option \notin {s \in ServiceNames : InConfig(cfg, s)}

\* set_config, lines 115 to 118: the config after verify_config passed.
ConfigWrite(cfg, service, option, value, overwrite) ==
    LET cfg1 == IF ~InConfig(cfg, service)
                THEN [cfg EXCEPT ![service] = Entry(NoOptions)]
                ELSE cfg
    IN  IF Writes(cfg, service, option, overwrite)
        THEN [cfg1 EXCEPT ![service].opts[option] = value]
        ELSE cfg1

\* The core's registry state as the operators above thread it.
Now == [services |-> services, calls |-> calls, running |-> running,
        log |-> log, err |-> "none", reentry |-> NoValue]

WithinBounds(st) == \A s \in ServiceNames : st.calls[s] <= MaxCalls

Last(op, service, option, ret, err) ==
    [op |-> op, service |-> service, option |-> option, ret |-> ret, err |-> err]

\* The registry part of a call's effect.
Becomes(st) ==
    /\ WithinBounds(st)
    /\ services' = st.services
    /\ calls' = st.calls
    /\ running' = st.running
    /\ log' = st.log
    /\ reentry' = st.reentry
    /\ UNCHANGED <<requests, tasks>>

GetConfig(service, option, ok) ==
    LET st == verify_config(Now, service, option, ok)
    IN  /\ Becomes(st)
        /\ UNCHANGED <<config, got>>
        /\ clast' = Last("get_config", service, option,
                         IF st.err = "none"
                         THEN ValueOf(ConfigLookup(config, service, option))
                         ELSE NoValue, st.err)

SetConfig(service, option, value, overwrite, ok) ==
    LET st == verify_config(Now, service, option, ok)
    IN  /\ Becomes(st)
        /\ config' = IF st.err = "none"
                     THEN ConfigWrite(config, service, option, value, overwrite)
                     ELSE config
        /\ UNCHANGED got
        /\ clast' = Last(IF overwrite THEN "set_config" ELSE "set_config_keep",
                         service, option, NoValue, st.err)

LoadService(service, ok) ==
    LET st == load_service(Now, service, ok)
    IN  /\ Becomes(st)
        /\ UNCHANGED <<config, got>>
        /\ clast' = Last("load_service", service, "", NoValue, st.err)

StartService(service, ok) ==
    LET st == start_service(Now, service, ok)
    IN  /\ Becomes(st)
        /\ UNCHANGED <<config, got>>
        /\ clast' = Last("start_service", service, "", NoValue, st.err)

GetService(service, ok) ==
    LET st == get_service(Now, service, ok)
        ret == IF st.err = "none" THEN st.services[service] ELSE NoValue
    IN  /\ Becomes(st)
        /\ UNCHANGED config
        /\ got' = IF st.err = "none" /\ got[service] = NoValue
                  THEN [got EXCEPT ![service] = ret]
                  ELSE got
        /\ clast' = Last("get_service", service, "", ret, st.err)

\* run, lines 162 and 163: start_service for the services of the config in
\* the order the dictionary yields them, up to the first that raises.
RECURSIVE StartAll(_, _, _, _)
StartAll(st, order, i, ok) ==
    IF i > Len(order) \/ st.err # "none"
    THEN st
    ELSE StartAll(start_service(st, order[i], ok), order, i + 1, ok)

Orders(S) ==
    {f \in [1..Cardinality(S) -> S] : \A i, j \in DOMAIN f : f[i] = f[j] => i = j}

\* run: _setup_logging sets self._log, then self.running, then the services.
Run(order, ok) ==
    LET st0 == [Now EXCEPT !.log = TRUE, !.running = TRUE]
        st == StartAll(st0, order, 1, ok)
    IN  /\ Becomes(st)
        /\ UNCHANGED <<config, got>>
        /\ clast' = Last("run", "", "", NoValue, st.err)

\* Core.__init__: the config is the content of the config file, or
\* DEFAULT_CONFIG.
DEFAULT_CONFIG ==
    [s \in ServiceNames |-> IF s = "scalestack.http" THEN Entry(NoOptions) ELSE NoEntry]

Options(port, local) ==
    [k \in Keys |-> IF k = "port" THEN port ELSE IF k = "_port" THEN local ELSE Unset]

ConfigFiles ==
    { [DEFAULT_CONFIG EXCEPT !["ext"] = Entry(Options(Unset, "8081"))],
      [DEFAULT_CONFIG EXCEPT !["ext"] = Entry(Options("8080", "8081"))],
      [DEFAULT_CONFIG EXCEPT !["scalestack.http"] = Entry(Options("8080", Unset))],
      [DEFAULT_CONFIG EXCEPT !["scalestack.http"] = NoEntry,
                             !["ext"] = Entry(NoOptions)] }

cvars == <<config, services, running, log, calls, got, clast, requests, reentry,
          tasks>>
vars == <<handlers, rlast, resp, req, config, services, running, log, calls, got, clast,
          requests, reentry, tasks>>

\* The greenlets that call the core.
Tasks == {1, 2}

\* The call of a greenlet: none (pc "idle"), one suspended in the
\* constructor of the service (pc "constructing", n the number of the
\* instance under construction, then what follows the constructor), or one
\* that has returned ret or raised err (pc "done"); during tells whether
\* another greenlet was in the constructor when the call ended.
Task(pc, op, then, n, ret, err, during) ==
    [pc |-> pc, op |-> op, then |-> then, n |-> n, ret |-> ret, err |-> err,
     during |-> during]

Idle == Task("idle", "", "", 0, NoValue, "none", FALSE)

CoreStart ==
    /\ tasks = [t \in Tasks |-> Idle]
    /\ services = [s \in ServiceNames |-> IF s = "scalestack" THEN CoreObj ELSE Absent]
    /\ running = FALSE
    /\ log = FALSE
    /\ calls = [s \in ServiceNames |-> 0]
    /\ got = [s \in ServiceNames |-> NoValue]
    /\ clast = Last("init", "", "", NoValue, "none")
    /\ reentry = NoValue

\* Whether another greenlet than t is in the constructor.
Constructing(t) == \E u \in Tasks \ {t} : tasks[u].pc = "constructing"

\* Greenlet t calls get_service(service) or start_service(service), and
\* runs up to the point where the constructor of the service waits for
\* I/O, or to the end of the call when no constructor is called.  The test
\* of lines 144 and 152 and load_service (lines 131 to 140) come first: a
\* service not in the registry gets its class stored, and is started when
\* the core is running.  A start (line 147) looks the entry up and calls
\* it: a class is constructed, an instance raises TypeError.  What follows
\* the constructor is the return of get_service ("return"), the end of
\* start_service ("end"), or, for start_service of a service load_service
\* has started already, line 147 once more ("start").
TaskCall(t, op, service) ==
    LET absent == ~InServices(Now, service)
        loaded == IF absent
                  THEN [services EXCEPT ![service] = ClassOf(service)]
                  ELSE services
        starts == op = "start_service" \/ (absent /\ running)
        then == IF op = "get_service" THEN "return"
                ELSE IF absent /\ running THEN "start" ELSE "end"
        n == calls[service] + 1
    IN  /\ tasks[t].pc # "constructing"
        /\ service # "scalestack"
        /\ IF absent /\ ~Importable(service)
           THEN /\ tasks' = [tasks EXCEPT ![t] =
                      Task("done", op, "", 0, NoValue, LoadRaises(service),
                           Constructing(t))]
                /\ UNCHANGED <<services, calls>>
           ELSE IF ~starts
           THEN /\ tasks' = [tasks EXCEPT ![t] =
                      Task("done", op, "", 0, loaded[service], "none",
                           Constructing(t))]
                /\ services' = loaded
                /\ UNCHANGED calls
           ELSE IF loaded[service].kind = "class"
           THEN /\ n <= MaxCalls
                /\ tasks' = [tasks EXCEPT ![t] =
                      Task("constructing", op, then, n, NoValue, "none", FALSE)]
                /\ services' = loaded
                /\ calls' = [calls EXCEPT ![service] = n]
           ELSE /\ tasks' = [tasks EXCEPT ![t] =
                      Task("done", op, "", 0, NoValue, "TypeError",
                           Constructing(t))]
                /\ UNCHANGED <<services, calls>>
        /\ UNCHANGED <<handlers, rlast, resp, req, config, running, log, got,
                       clast, requests, reentry>>

\* The constructor greenlet t waits in goes on to its end: it raises, or
\* returns the instance, which line 147 stores; line 148 needs the logger;
\* then the call ends, or calls the entry, now an instance, once more.
TaskResume(t, service, ok) ==
    LET task == tasks[t]
        made == Instance(service, task.n)
        err == IF ~ok THEN "ConstructorError"
               ELSE IF ~log THEN "AttributeError"
               ELSE IF task.then = "start" THEN "TypeError"
               ELSE "none"
        ret == IF err = "none" /\ task.then = "return" THEN made ELSE NoValue
    IN  /\ task.pc = "constructing"
        /\ tasks' = [tasks EXCEPT ![t] =
              Task("done", task.op, "", task.n, ret, err, Constructing(t))]
        /\ services' = IF ok THEN [services EXCEPT ![service] = made]
                       ELSE services
        /\ UNCHANGED <<handlers, rlast, resp, req, config, running, log, calls,
                       got, clast, requests, reentry>>

\* What the constructor of ext asks the core for: nothing, or ext itself.
Requested == {None, "ext"}

\* Whether the outcome of a constructor is one the call can depend on: only
\* that of ext is open.
Outcomes(service) == IF service = "ext" THEN BOOLEAN ELSE {TRUE}

ConfigOrders == Orders({s \in ServiceNames : InConfig(config, s)})

RouterIdle ==
    /\ handlers = <<>>
    /\ rlast = NoCall
    /\ resp = NoResponse
    /\ req = NoRequest

(* The core's registry: every operation that loads, starts or returns a    *)
(* service.  set_config acts on the registry through verify_config alone,  *)
(* as get_config does, and is left to ConfigSpec.                          *)
Init ==
    /\ config \in {DEFAULT_CONFIG} \cup ConfigFiles
    /\ requests \in Requested
    /\ CoreStart
    /\ RouterIdle

Next ==
    \/ \E s \in ServiceNames, o \in OptionNames :
          \E ok \in Outcomes(s) :
          GetConfig(s, o, ok) /\ UNCHANGED <<rvars, dvars>>
    \/ \E s \in ServiceNames :
          \E ok \in Outcomes(s) :
          LoadService(s, ok) /\ UNCHANGED <<rvars, dvars>>
    \/ \E s \in ServiceNames :
          \E ok \in Outcomes(s) :
          StartService(s, ok) /\ UNCHANGED <<rvars, dvars>>
    \/ \E s \in ServiceNames :
          \E ok \in Outcomes(s) :
          GetService(s, ok) /\ UNCHANGED <<rvars, dvars>>
    \/ \E order \in ConfigOrders, ok \in BOOLEAN :
          Run(order, ok) /\ UNCHANGED <<rvars, dvars>>

Spec == Init /\ [][Next]_vars

(* The core's configuration: get_config and set_config, with the           *)
(* operations that change what verify_config finds in the registry.        *)
ConfigInit ==
    /\ config \in {DEFAULT_CONFIG} \cup ConfigFiles
    /\ requests = None
    /\ CoreStart
    /\ RouterIdle

ConfigNext ==
    \/ \E s \in ServiceNames, o \in OptionNames :
          \E ok \in Outcomes(s) :
          GetConfig(s, o, ok) /\ UNCHANGED <<rvars, dvars>>
    \/ \E s \in ServiceNames, o \in OptionNames, v \in Values,
          overwrite \in BOOLEAN :
          \E ok \in Outcomes(s) :
          SetConfig(s, o, v, overwrite, ok) /\ UNCHANGED <<rvars, dvars>>
    \/ \E s \in ServiceNames :
          \E ok \in Outcomes(s) :
          StartService(s, ok) /\ UNCHANGED <<rvars, dvars>>
    \/ \E order \in ConfigOrders, ok \in BOOLEAN :
          Run(order, ok) /\ UNCHANGED <<rvars, dvars>>

ConfigSpec == ConfigInit /\ [][ConfigNext]_vars

---------------------------------------------------------------------------
(* The HTTP service on its own: handlers are registered and requests        *)
(* matched; the core is left as constructed.                               *)

\* Service.__init__, line 51.
RouterInit ==
    /\ RouterIdle
    /\ config = DEFAULT_CONFIG
    /\ requests = None
    /\ CoreStart

RouterNext ==
    \/ \E host \in Hosts, path \in RawPaths :
          AddHandler(host, path) /\ UNCHANGED <<cvars, dvars>>
    \/ \E host \in RequestHosts, path \in RequestPaths :
          MatchHandler(host, path) /\ UNCHANGED <<cvars, dvars>>

RouterSpec == RouterInit /\ [][RouterNext]_vars

---------------------------------------------------------------------------
(* The HTTP service called with requests, its handlers being registered.   *)

\* Handler lists add_handler has built.
DispatchHandlers ==
    { <<>>,
      <<Handler(None, <<"/">>)>>,
      <<Handler("a", <<"/", "a">>)>>,
      <<Handler(None, <<"/">>), Handler("a", <<"/", "a">>)>> }

DispatchInit ==
    /\ handlers \in DispatchHandlers
    /\ rlast = NoCall
    /\ resp = NoResponse
    /\ req = NoRequest
    /\ config = DEFAULT_CONFIG
    /\ requests = None
    /\ CoreStart

DispatchNext ==
    \/ \E header \in HostHeaders, info \in PathInfos, b \in Behaviours :
          Dispatch(header, info, b) /\ UNCHANGED cvars
    \/ \E recent \in Recents :
          Iterate(recent) /\ UNCHANGED cvars

DispatchSpec == DispatchInit /\ [][DispatchNext]_vars

---------------------------------------------------------------------------
(* A request object parsing its query string and its cookie header.        *)

QueryStrings == SeqsUpTo(QueryChars, MaxTextLen)
CookieStrings == SeqsUpTo(CookieChars, MaxTextLen)

ParseInit ==
    /\ req \in {NewRequest(Given(q), Missing) : q \in QueryStrings}
              \cup {NewRequest(Missing, Given(c)) : c \in CookieStrings}
              \cup {NoRequest}
    /\ handlers = <<>>
    /\ rlast = NoCall
    /\ resp = NoResponse
    /\ config = DEFAULT_CONFIG
    /\ requests = None
    /\ CoreStart

ParseNext ==
    \/ ParseParameters /\ UNCHANGED cvars
    \/ ParseCookies /\ UNCHANGED cvars

ParseSpec == ParseInit /\ [][ParseNext]_vars

(***************************************************************************)
(* The accessors of one request, called in any order and any number of     *)
(* times.                                                                  *)
(***************************************************************************)
AccessTexts == {Missing, Given(<<>>), Given(<<"a", "=", "b">>)}
Inputs == {"", "body"}

AccessInit ==
    /\ req \in {[NewRequest(q, c) EXCEPT !.wsgi_input = i] :
                  q \in AccessTexts, c \in AccessTexts, i \in Inputs}
    /\ handlers = <<>>
    /\ rlast = NoCall
    /\ resp = NoResponse
    /\ config = DEFAULT_CONFIG
    /\ requests = None
    /\ CoreStart

AccessNext ==
    \/ ParseParameters /\ UNCHANGED cvars
    \/ ParseCookies /\ UNCHANGED cvars
    \/ \E outcome \in ReadOutcomes : ReadBody(outcome) /\ UNCHANGED cvars

AccessSpec == AccessInit /\ [][AccessNext]_vars

(***************************************************************************)
(* The http service called with requests of many Host headers, handlers    *)
(* with a host filter being registered for the path every request has.     *)
(***************************************************************************)
HostTexts ==
    { <<"a">>, <<"A">>, <<"b">>, <<"a", "b">>, <<"a", ":">>, <<":", "8">>,
      <<"a", ":", "8">>, <<"A", ":", "8">>, <<"a", ":", "b", ":", "8">> }

HostHandlers ==
    { <<Handler("a", <<"/">>)>>,
      <<Handler(None, <<"/">>), Handler("a", <<"/">>)>>,
      <<Handler("a", <<"/">>), Handler(None, <<"/", "a">>)>>,
      <<Handler("A", <<"/">>), Handler("a", <<"/">>)>> }

HostInit ==
    /\ handlers \in HostHandlers
    /\ rlast = NoCall
    /\ resp = NoResponse
    /\ req = NoRequest
    /\ config = DEFAULT_CONFIG
    /\ requests = None
    /\ CoreStart

HostNext ==
    \E header \in {NoHostHeader} \cup {HostHeader(t) : t \in HostTexts},
       info \in PathInfos, b \in {x \in Behaviours : x.kind = "respond"} :
       Dispatch(header, info, b) /\ UNCHANGED cvars

HostSpec == HostInit /\ [][HostNext]_vars

(***************************************************************************)
(* Two greenlets call get_service and start_service for a service whose    *)
(* constructor waits for I/O, before run or after it.                      *)
(***************************************************************************)
Shared == "ext"

TaskInit ==
    /\ tasks = [t \in Tasks |-> Idle]
    /\ services = [s \in ServiceNames |-> IF s = "scalestack" THEN CoreObj ELSE Absent]
    /\ running \in BOOLEAN
    /\ log = running
    /\ calls = [s \in ServiceNames |-> 0]
    /\ got = [s \in ServiceNames |-> NoValue]
    /\ clast = Last("init", "", "", NoValue, "none")
    /\ reentry = NoValue
    /\ config = DEFAULT_CONFIG
    /\ requests = None
    /\ RouterIdle

TaskNext ==
    \/ \E t \in Tasks, op \in {"get_service", "start_service"} :
          TaskCall(t, op, Shared)
    \/ \E t \in Tasks, ok \in BOOLEAN : TaskResume(t, Shared, ok)

TaskSpec == TaskInit /\ [][TaskNext]_vars

---------------------------------------------------------------------------
(* Properties of the HTTP service's handler list (RouterSpec).             *)

\* The handler at position i serves the request (host, path): its host
\* filter is None or the request's host, and its path is a prefix of the
\* request's path.
Serves(i, host, path) ==
    /\ handlers[i].host \in {None, host}
    /\ StartsWith(path, handlers[i].path)

Registered == 1..Len(handlers)

\* C1: match_handler (not exact) returns a handler that serves the request
\* and no handler serving the request has a strictly longer path; it returns
\* None only when no handler serves the request.
C1_LongestPrefix ==
    rlast.op = "match_handler" =>
        IF rlast.ret = 0
        THEN \A i \in Registered : ~Serves(i, rlast.host, rlast.path)
        ELSE /\ rlast.ret \in Registered
             /\ Serves(rlast.ret, rlast.host, rlast.path)
             /\ \A i \in Registered :
                   Serves(i, rlast.host, rlast.path) =>
                       Len(handlers[i].path) <= Len(handlers[rlast.ret].path)

\* A request was matched to a handler although a handler with the same host
\* and a shorter path, registered after it, serves the request too.
C1_Witness ==
    /\ rlast.op = "match_handler"
    /\ rlast.ret # 0
    /\ \E i \in Registered :
          /\ i > rlast.ret
          /\ handlers[i].host = handlers[rlast.ret].host
          /\ Serves(i, rlast.host, rlast.path)
          /\ Len(handlers[i].path) < Len(handlers[rlast.ret].path)

\* C2 (as stated): match_handler called with the very (host, path) of a
\* registered handler returns that handler, whatever else is registered.
C2_ExactResolves ==
    rlast.op = "match_handler" =>
        \A i \in Registered :
            (handlers[i].host = rlast.host /\ handlers[i].path = rlast.path)
                => rlast.ret = i

\* The handlers registered after position i with the path of handler i and
\* no host filter.
LaterWildcards(i) ==
    {j \in Registered : /\ j > i
                        /\ handlers[j].host = None
                        /\ handlers[j].path = handlers[i].path}

\* C2 (amended): match_handler called with the very (host, path) of a
\* registered handler returns that handler, unless a handler with the same
\* path and no host filter was registered after it, which is then returned;
\* such a handler registered before it does not take its place.
C2_ExactResolvesUnlessLaterWildcard ==
    rlast.op = "match_handler" =>
        \A i \in Registered :
            (handlers[i].host = rlast.host /\ handlers[i].path = rlast.path)
                => IF LaterWildcards(i) = {}
                   THEN rlast.ret = i
                   ELSE rlast.ret \in LaterWildcards(i)

\* A request with the (host, path) of a registered handler that has a host
\* filter was matched to that handler although a handler with the same path
\* and no host filter was registered before it.
C2_Witness ==
    /\ rlast.op = "match_handler"
    /\ rlast.ret # 0
    /\ rlast.host # None
    /\ handlers[rlast.ret].host = rlast.host
    /\ handlers[rlast.ret].path = rlast.path
    /\ \E j \in Registered :
          /\ j < rlast.ret
          /\ handlers[j].host = None
          /\ handlers[j].path = rlast.path

\* C3: registering a (host, path) that is already registered fails with
\* HandlerAlreadyExists.
C3_DuplicateError ==
    (rlast.op = "add_handler" /\ rlast.dup) => rlast.err = "HandlerAlreadyExists"

---------------------------------------------------------------------------
(* Properties of the core's configuration (ConfigSpec).                    *)

ConfigOps == {"get_config", "set_config", "set_config_keep"}

\* The two slots of an option in the config tree.
SharedSlot(cfg, service, option) ==
    IF cfg[service].present /\ option \in Keys
    THEN cfg[service].opts[option] ELSE Unset

LocalSlot(cfg, service, option) ==
    IF cfg[service].present /\ option = "port"
    THEN cfg[service].opts["_port"] ELSE Unset

ConstructorErrors == {"AttributeError", "ConstructorError"}

\* C4: for a declared option, the value get_config returns is the local
\* value if there is one, else the shared value if there is one, else the
\* declared default; and get_config returns unless the module of the service
\* raises when it is imported, or the core is running and the constructor of
\* the service, which the call then starts, raises.
C4_GetPrecedence ==
    (clast.op = "get_config" /\ clast.option \in CONFIG_OPTIONS(clast.service)) =>
        LET local == LocalSlot(config, clast.service, clast.option)
            shared == SharedSlot(config, clast.service, clast.option)
        IN  IF clast.err = "none"
            THEN clast.ret = ValueOf(IF local # Unset THEN local
                                     ELSE IF shared # Unset THEN shared
                                     ELSE default_value(clast.service, clast.option))
            ELSE \/ /\ running
                    /\ clast.err \in ConstructorErrors
                    /\ services[clast.service].kind = "class"
                 \/ /\ clast.err = "TypeError"
                    /\ ImportRaises(clast.service) = "TypeError"
                    /\ services[clast.service] = Absent

\* get_config returned the local value of an option whose shared value is
\* another one.
C4_Witness ==
    /\ clast.op = "get_config"
    /\ clast.err = "none"
    /\ clast.option \in CONFIG_OPTIONS(clast.service)
    /\ LocalSlot(config, clast.service, clast.option) # Unset
    /\ SharedSlot(config, clast.service, clast.option) # Unset
    /\ SharedSlot(config, clast.service, clast.option)
           # LocalSlot(config, clast.service, clast.option)
    /\ clast.ret = ValueOf(LocalSlot(config, clast.service, clast.option))

\* C5: set_config with overwrite false, for an option that has a local or a
\* shared value, leaves the config tree unchanged.
C5_KeepsExisting ==
    [][(/\ clast'.op = "set_config_keep"
        /\ \/ LocalSlot(config, clast'.service, clast'.option) # Unset
           \/ SharedSlot(config, clast'.service, clast'.option) # Unset)
       => config' = config]_vars

\* An option of a service that can be imported and does not declare it.
Undeclared(service, option) ==
    Importable(service) /\ option \notin CONFIG_OPTIONS(service)

\* C6 (as stated): get_config and set_config with an option the service does
\* not declare always fail with InvalidConfigOption.
C6_AlwaysInvalidOption ==
    (clast.op \in ConfigOps /\ Undeclared(clast.service, clast.option))
        => clast.err = "InvalidConfigOption"

\* C6 (amended): get_config and set_config with an option the service does
\* not declare always fail, returning no value and leaving the config tree
\* unchanged; the failure is InvalidConfigOption, unless the core is running
\* and the constructor of the service, which the call then starts, raises.
C6_UnknownOptionFails ==
    [][(clast'.op \in ConfigOps /\ Undeclared(clast'.service, clast'.option)) =>
          /\ clast'.err # "none"
          /\ clast'.ret = NoValue
          /\ config' = config
          /\ \/ clast'.err = "InvalidConfigOption"
             \/ /\ running'
                /\ clast'.err \in ConstructorErrors
                /\ services'[clast'.service].kind = "class"]_vars

\* get_config failed with InvalidConfigOption for a key the config tree
\* holds a value under.
C6_Witness ==
    /\ clast.op = "get_config"
    /\ Undeclared(clast.service, clast.option)
    /\ clast.err = "InvalidConfigOption"
    /\ SharedSlot(config, clast.service, clast.option) # Unset

\* C7: set_config of the local form of a declared option of a service that
\* can be imported succeeds and stores the value in the local slot.
C7_LocalFormSet ==
    (/\ clast.op \in {"set_config", "set_config_keep"}
     /\ clast.option = "_port"
     /\ Importable(clast.service)
     /\ "port" \in CONFIG_OPTIONS(clast.service))
        => /\ clast.err = "none"
           /\ LocalSlot(config, clast.service, "port") # Unset

---------------------------------------------------------------------------
(* Properties of the core's service registry (Spec).                       *)

\* C8: every value get_service returns for a name is the first one it
\* returned for that name.
C8_SameInstance ==
    (clast.op = "get_service" /\ clast.err = "none") => clast.ret = got[clast.service]

\* C9: for a service other than the core, get_service returns a constructed
\* instance, never the class.
C9_LiveInstance ==
    (clast.op = "get_service" /\ clast.err = "none" /\ clast.service # "scalestack")
        => clast.ret.kind = "instance"

\* C10: start_service on a service that is already instantiated completes
\* without error and leaves the registry as it is.
C10_StartOnce ==
    [][(clast'.op = "start_service" /\ services[clast'.service].kind = "instance")
       => (clast'.err = "none" /\ services' = services)]_vars

\* C11: a constructor that asks the core for the service it is constructing
\* is refused: the request is not answered with a value, and the call that
\* triggered the construction fails with CircularDependencyError.
C11_CycleRefused ==
    reentry # NoValue =>
        /\ reentry.kind \notin {"class", "instance"}
        /\ clast.err = "CircularDependencyError"

\* The name that resolves to no module.
Unresolvable == "nosuch"

\* C12: a call that names a service that cannot be resolved fails with the
\* import error, returns nothing and leaves the registry as it was, with no
\* entry for that name, whatever was called before.
C12_ImportFails ==
    [][clast'.service = Unresolvable =>
          /\ clast'.err = "ImportError"
          /\ clast'.ret = NoValue
          /\ services' = services
          /\ services'[Unresolvable] = Absent]_vars

\* load_service of the unresolvable name has failed after an earlier call
\* that named it.
C12_Witness ==
    /\ clast.op = "load_service"
    /\ clast.service = Unresolvable
    /\ clast.err = "ImportError"
    /\ services[Unresolvable] = Absent
    /\ \E s \in ServiceNames \ {"scalestack"} : services[s] # Absent

---------------------------------------------------------------------------
(* Properties of the dispatch of a request (DispatchSpec).                 *)

\* The positions of the headers called name in a header list.
Named(name, headers) == {i \in DOMAIN headers : headers[i][1] = name}

\* C13: a request that no handler matches is answered by one call of start
\* with the status 404 Not Found and a header list with exactly one Server
\* header, the body returned is 404 Not Found, and no request class is
\* called or run.
C13_NotFound ==
    (resp.op = "call" /\ resp.matched = 0) =>
        /\ Len(resp.starts) = 1
        /\ resp.starts[1].status = "404 Not Found"
        /\ Cardinality(Named("Server", resp.starts[1].headers)) = 1
        /\ resp.body = "404 Not Found"
        /\ ~resp.constructed
        /\ ~resp.ran
        /\ resp.err = "none"

\* A request was answered that none of the registered handlers matches.
C13_Witness ==
    /\ resp.op = "call"
    /\ resp.matched = 0
    /\ handlers # <<>>
    /\ resp.body = "404 Not Found"

\* The status line each status code class stands for.
SignalStatus ==
    [c \in StatusClasses |->
        CASE c = "BadRequest" -> "400 Bad Request"
          [] c = "Unauthorized" -> "401 Unauthorized"
          [] c = "Forbidden" -> "403 Forbidden"
          [] c = "NotFound" -> "404 Not Found"
          [] c = "MethodNotAllowed" -> "405 Method Not Allowed"]

\* C14: when the request class of the matched handler raises a status code,
\* in its constructor or in run, the dispatcher calls start, as the last
\* call of start of the request, with the status line of the class and the
\* headers of the status code (after a Server header, if they have none),
\* and the body returned is the body of the status code: the body it was
\* raised with if that is not empty, else the status line.
C14_StatusSignal ==
    (resp.op = "call" /\ resp.behaviour.kind = "status") =>
        LET b == resp.behaviour
            signal == StatusCode(b.class, b.body, b.headers)
            last == resp.starts[Len(resp.starts)]
        IN  /\ Len(resp.starts) = (IF b.phase = "started" THEN 2 ELSE 1)
            /\ last.status = SignalStatus[b.class]
            /\ last.headers \in
                  {signal.headers, << <<"Server", SERVER_SOFTWARE>> >> \o signal.headers}
            /\ \A i \in DOMAIN b.headers :
                  \E j \in DOMAIN last.headers :
                     last.headers[j] = b.headers[i]
            /\ resp.body = IF b.body \in {None, ""}
                           THEN SignalStatus[b.class] ELSE b.body
            /\ resp.err = "none"

\* BadRequest raised with a body of its own was answered with 400 and that
\* body.
C14_Witness ==
    /\ resp.op = "call"
    /\ resp.behaviour.kind = "status"
    /\ resp.behaviour.class = "BadRequest"
    /\ resp.behaviour.body = "test"
    /\ resp.starts[1].status = "400 Bad Request"
    /\ resp.body = "test"

\* C15: when the request class of the matched handler raises an exception
\* that is not a status code, in its constructor or in run, the dispatcher
\* calls start, as the last call of start of the request, with the status
\* 500 Internal Server Error and the Server header alone, and the body
\* returned is empty, whatever the exception was.
C15_InternalError ==
    (resp.op = "call" /\ resp.behaviour.kind = "fault") =>
        /\ Len(resp.starts) = (IF resp.behaviour.phase = "started" THEN 2 ELSE 1)
        /\ resp.starts[Len(resp.starts)].status = "500 Internal Server Error"
        /\ resp.starts[Len(resp.starts)].headers = << <<"Server", SERVER_SOFTWARE>> >>
        /\ resp.body = ""
        /\ resp.err = "none"

\* The constructor of a request class raised and the request was answered
\* with 500.
C15_Witness ==
    /\ resp.op = "call"
    /\ resp.behaviour.kind = "fault"
    /\ resp.behaviour.phase = "init"
    /\ ~resp.ran
    /\ resp.starts[1].status = "500 Internal Server Error"

\* C16: every call of start, by the dispatcher or by a response helper,
\* passes a Server header; and when the headers a status code was raised
\* with have a Server header, the headers the dispatcher passes have that
\* header and no other Server header.
C16_ServerHeader ==
    resp.op = "call" =>
        /\ \A i \in DOMAIN resp.starts :
              Named("Server", resp.starts[i].headers) # {}
        /\ (resp.behaviour.kind = "status"
               /\ Named("Server", resp.behaviour.headers) # {}) =>
              \A i \in {Len(resp.starts)} :
                 LET given == resp.behaviour.headers
                     passed == resp.starts[i].headers
                 IN  /\ Cardinality(Named("Server", passed))
                          = Cardinality(Named("Server", given))
                     /\ {passed[j] : j \in Named("Server", passed)}
                          = {given[j] : j \in Named("Server", given)}

\* A status code raised with a Server header of its own was answered with
\* that header.
C16_Witness ==
    /\ resp.op = "call"
    /\ resp.behaviour.kind = "status"
    /\ Named("Server", resp.behaviour.headers) # {}
    /\ Len(resp.starts) = 1
    /\ <<"Server", "custom">> = resp.starts[1].headers[1]

\* C17: when the request class of the matched handler ends its run with
\* _ok(body), start is called once, with the status 200 Ok, and the body
\* returned is the value run returned: the body given to _ok, the empty
\* string standing for None.
C17_OkBody ==
    (/\ resp.op = "call"
     /\ resp.behaviour.kind = "respond"
     /\ resp.behaviour.class = "_ok") =>
        /\ resp.matched # 0
        /\ Len(resp.starts) = 1
        /\ resp.starts[1].status = "200 Ok"
        /\ resp.body = IF resp.behaviour.body = None
                       THEN "" ELSE resp.behaviour.body
        /\ resp.err = "none"

\* A request for / was answered with 200 and the body test.
C17_Witness ==
    /\ resp.op = "call"
    /\ resp.behaviour.kind = "respond"
    /\ resp.behaviour.class = "_ok"
    /\ handlers[resp.matched].path = <<"/">>
    /\ resp.starts[1].status = "200 Ok"
    /\ resp.body = "test"

\* C18: a request the Request of scalestack.profile runs for is answered
\* with the status 200 Ok and a body that is produced without an exception
\* and is not empty, whatever the list of recent profiles holds.
C18_ProfileBody ==
    (resp.op = "call" /\ resp.behaviour.kind = "profile" /\ resp.drained) =>
        /\ Len(resp.starts) = 1
        /\ resp.starts[1].status = "200 Ok"
        /\ resp.fault = "none"
        /\ resp.chunks # <<>>

---------------------------------------------------------------------------
(* Properties of the parsing of a request (ParseSpec).                     *)

\* The text of a piece before its first "=", and the text after it.
Before(piece) ==
    IF \E i \in DOMAIN piece : piece[i] = "="
    THEN SubSeq(piece, 1, (CHOOSE i \in DOMAIN piece :
                              /\ piece[i] = "="
                              /\ \A j \in 1..(i - 1) : piece[j] # "=") - 1)
    ELSE piece

After(piece) ==
    SubSeq(piece, Len(Before(piece)) + 2, Len(piece))

HasValue(piece) == \E i \in DOMAIN piece : piece[i] = "="

\* t is s without the characters of chars that surround it.
Trims(s, chars, t) ==
    \E i \in 1..(Len(s) + 1), j \in 0..Len(s) :
       /\ t = SubSeq(s, i, j)
       /\ \A k \in 1..(i - 1) : s[k] \in chars
       /\ \A k \in (j + 1)..Len(s) : s[k] \in chars
       /\ t # <<>> => (t[1] \notin chars /\ t[Len(t)] \notin chars)

\* The dictionary d is what the pieces of text between the separators sep
\* give: every piece has its key in d, the key being the text before its
\* first "=" without the surrounding characters of keytrim; the last piece
\* of a key gives the value, None for a piece without "=", else the text
\* after the first "=" without the surrounding characters of valuetrim; and
\* d has no other key.
ParsedAs(text, sep, d, keytrim, valuetrim) ==
    LET pieces == Split(text, sep)
    IN  /\ \A i \in DOMAIN pieces :
              \E k \in DOMAIN d :
                 /\ Trims(Before(pieces[i]), keytrim, k)
                 /\ (\A j \in (i + 1)..Len(pieces) :
                        ~Trims(Before(pieces[j]), keytrim, k)) =>
                      IF HasValue(pieces[i])
                      THEN /\ ~d[k].null
                           /\ Trims(After(pieces[i]), valuetrim, d[k].text)
                      ELSE d[k] = Null
        /\ \A k \in DOMAIN d :
              \E i \in DOMAIN pieces : Trims(Before(pieces[i]), keytrim, k)

\* C19 (as stated): the parameters map the text before the first "=" of
\* each piece of the query string to the text after it, or to None; the
\* cookies do the same for the pieces between ";", with the quote and space
\* characters around the values removed.
C19_ParseLiteral ==
    /\ (req._parameters.parsed /\ req.QUERY_STRING.present) =>
          ParsedAs(req.QUERY_STRING.text, "&", req._parameters.dict, {}, {})
    /\ (req._cookies.parsed /\ req.HTTP_COOKIE.present) =>
          ParsedAs(req.HTTP_COOKIE.text, ";", req._cookies.dict, {}, CookieTrim)

\* C19 (amended): as above, with the whitespace around the keys, and around
\* the values of the parameters, removed, and a later piece replacing the
\* value of an earlier piece with the same key.
C19_ParseTrimmed ==
    /\ (req._parameters.parsed /\ req.QUERY_STRING.present) =>
          ParsedAs(req.QUERY_STRING.text, "&", req._parameters.dict,
                   Whitespace, Whitespace)
    /\ (req._cookies.parsed /\ req.HTTP_COOKIE.present) =>
          ParsedAs(req.HTTP_COOKIE.text, ";", req._cookies.dict,
                   Whitespace, CookieTrim)

\* The query string " a&b=" was parsed into a with None and b with the
\* empty text.
C19_Witness ==
    /\ req._parameters.parsed
    /\ req.QUERY_STRING = Given(<<" ", "a", "&", "b", "=">>)
    /\ DOMAIN req._parameters.dict = {<<"a">>, <<"b">>}
    /\ req._parameters.dict[<<"a">>] = Null
    /\ req._parameters.dict[<<"b">>] = Text(<<>>)

---------------------------------------------------------------------------
(* Handlers with paths of equal length (RouterSpec).                       *)

\* The handlers at positions i and j, i registered before j, have the same
\* path and both serve the request (host, path), one by its host and one by
\* having no host filter, and no handler with a longer path serves it.
Tie(i, j, host, path) ==
    /\ i < j
    /\ handlers[i].path = handlers[j].path
    /\ Serves(i, host, path)
    /\ Serves(j, host, path)
    /\ \A k \in Registered :
          Serves(k, host, path) => Len(handlers[k].path) <= Len(handlers[i].path)

\* C20 (as stated): of two handlers with the same path that both serve the
\* request, match_handler returns the one registered earlier.
C20_EarlierWins ==
    rlast.op = "match_handler" =>
        \A i, j \in Registered :
            Tie(i, j, rlast.host, rlast.path) => rlast.ret = i

\* C20 (amended): of two handlers with the same path that both serve the
\* request, match_handler returns the one registered later, whether that is
\* the one with the host or the one without a host filter.
C20_LaterWins ==
    rlast.op = "match_handler" =>
        \A i, j \in Registered :
            Tie(i, j, rlast.host, rlast.path) => rlast.ret = j

\* A request was matched to the handler with its host, registered after a
\* handler with the same path and no host filter.
C20_Witness ==
    /\ rlast.op = "match_handler"
    /\ \E i, j \in Registered :
          /\ Tie(i, j, rlast.host, rlast.path)
          /\ handlers[i].host = None
          /\ handlers[j].host = rlast.host
          /\ rlast.ret = j

\* C21: in every request, whatever the request class of the matched handler
\* does (returns after a response helper, returns without one, raises a
\* status code or another exception before or after a helper), start is
\* called exactly once.
C21_StartedOnce ==
    resp.op = "call" => Len(resp.starts) = 1

\* C22: no exception raised while a request is handled leaves the request:
\* none leaves __call__, and none is raised when the body __call__ returned
\* is iterated over after run has returned.
C22_NoFaultEscapes ==
    resp.op = "call" => (resp.err = "none" /\ resp.fault = "none")

\* C23: in one request, the environment is read at most once for each of
\* the parameters, the cookies and the body, however often the accessors
\* are called and whatever the first call found or raised.
C23_AtMostOnce ==
    \A k \in {"parameters", "cookies", "body"} : req.reads[k] <= 1

(***************************************************************************)
(* The effect of get_config and load_service on the registry (Spec).       *)
(***************************************************************************)
\* The registry entries and constructor calls of the services other than
\* service are what they were.
OthersKept(service) ==
    \A s \in ServiceNames \ {service} :
       services'[s] = services[s] /\ calls'[s] = calls[s]

Resolvable == "ext"

C26_ConstructedOnce ==
    /\ \A t \in Tasks : tasks[t].pc = "constructing" => ~Constructing(t)
    /\ \A t \in Tasks :
          (tasks[t].pc = "done" /\ tasks[t].during) => tasks[t].ret.kind # "class"
    /\ \A t, u \in Tasks :
          (/\ tasks[t].pc = "done" /\ tasks[t].ret.kind = "instance"
           /\ tasks[u].pc = "done" /\ tasks[u].ret.kind = "instance")
             => tasks[t].ret = tasks[u].ret

(***************************************************************************)
(* The host filter of a handler and the Host header (HostSpec).            *)
(***************************************************************************)
\* The text is the name, or the name followed by a colon and a text without
\* colon.
NamedBy(text, name) ==
    \/ /\ Join(text) = name
       /\ \A j \in DOMAIN text : text[j] # ":"
    \/ \E k \in DOMAIN text :
          /\ text[k] = ":"
          /\ \A j \in (k + 1)..Len(text) : text[j] # ":"
          /\ Join(SubSeq(text, 1, k - 1)) = name

\* C27: the handler a request is served by has no host filter, or the
\* request has a Host header whose text before the port is the filter,
\* character by character.
C27_ExactHost ==
    (/\ resp.op = "call"
     /\ resp.matched # 0
     /\ handlers[resp.matched].host # None) =>
        /\ resp.HTTP_HOST.present
        /\ NamedBy(resp.HTTP_HOST.text, handlers[resp.matched].host)

\* A request for the host A was served by the handler without host filter,
\* a handler for the host a and a path as long being registered after it.
C27_Witness ==
    /\ handlers = <<Handler(None, <<"/">>), Handler("a", <<"/">>)>>
    /\ resp.op = "call"
    /\ resp.HTTP_HOST = HostHeader(<<"A", ":", "8">>)
    /\ resp.matched = 1

=============================================================================
